---- MODULE Spec2Model ----
(***************************************************************************)
(* Nexus AI chatbot (src/app.py): the session-backed chat transcript, the  *)
(* request handlers index (GET/POST) and clear_chat, and the helper        *)
(* get_gemini_response with its prompt assembly and response cleaning.     *)
(*                                                                         *)
(* A Python str is modelled as a sequence of one-character strings, so     *)
(* that str.replace, str.join and f-string concatenation are computed      *)
(* character by character.  The two non-ASCII characters of the welcome    *)
(* message are written as the tokens "u2019" and "u2014".                  *)
(***************************************************************************)
EXTENDS Integers, Sequences, FiniteSets, Bags, TLC

VARIABLES
    model,          \* the module global `model`: TRUE iff a client was created (app.py:57-88)
    session,        \* the session as the client holds it: whether it has 'chat_history', and the list
    waiting,        \* the index handlers blocked in model.generate_content: a bag of their locals
    popped,         \* what session.pop returned, kept while the request after the clear is handled
    lastReq,        \* the request received last: "none", "GET", "POST" or "clear"
    prevReq,        \* the request received before it
    form,           \* request.form of the request whose handler ran last
    outcome,        \* what the completion client did when it answered last
    passed,         \* the chat_history argument of the latest get_gemini_response call
    prompt,         \* the prompt of that call's model.generate_content
    gemini_calls,   \* calls of get_gemini_response made by the request whose handler ran last
    client_calls,   \* calls of model.generate_content made by it
    rendered,       \* the chat_history the last GET handed to render_template
    response,       \* the handler's last step: "none", "page", "redirect", "error400",
                    \* "error500", or "waiting" when it blocked in model.generate_content
    arg,            \* the chat_history given to get_gemini_response when it is run on its own
    reply,          \* what that run returned
    raw,            \* a response text given to the cleaning step on its own
    cleaned,        \* its cleaned text
    phase           \* "idle", "input" (inputs drawn) or "done" (function applied)

vars == <<model, session, waiting, popped, lastReq, prevReq, form, outcome, passed,
          prompt, gemini_calls, client_calls, rendered, response, arg, reply,
          raw, cleaned, phase>>

webvars == <<session, waiting, popped, lastReq, prevReq, form, passed, prompt,
             gemini_calls, client_calls, rendered, response>>

(***************************************************************************)
(* Bounds of the model.                                                    *)
(***************************************************************************)
MaxPosts == 2       \* non-empty messages in a transcript and with the handlers that wait
MaxArgTurns == 2    \* longest chat_history given to get_gemini_response on its own
MaxLen == 3         \* longest text given to the cleaning step on its own

(***************************************************************************)
(* String literals of the source.                                          *)
(***************************************************************************)
WelcomeText ==
    <<"H", "i", "!", " ", "I", "u2019", "m", " ", "N", "e", "x", "u", "s", " ",
      "A", "I", " ", "u2014", " ", "y", "o", "u", "r", " ", "i", "n", "t", "e",
      "l", "l", "i", "g", "e", "n", "t", " ", "a", "s", "s", "i", "s", "t", "a",
      "n", "t", ".", " ", "H", "o", "w", " ", "c", "a", "n", " ", "I", " ", "h",
      "e", "l", "p", " ", "y", "o", "u", " ", "t", "o", "d", "a", "y", "?">>

ConfigError ==
    <<"E", "r", "r", "o", "r", ":", " ", "G", "e", "m", "i", "n", "i", " ", "m",
      "o", "d", "e", "l", " ", "i", "s", " ", "n", "o", "t", " ", "i", "n", "i",
      "t", "i", "a", "l", "i", "z", "e", "d", ".", " ", "C", "h", "e", "c", "k",
      " ", "A", "P", "I", " ", "k", "e", "y", " ", "a", "n", "d", " ", "c", "o",
      "n", "f", "i", "g", "u", "r", "a", "t", "i", "o", "n", ".">>

ErrorPrefix ==
    <<"E", "r", "r", "o", "r", ":", " ", "C", "o", "u", "l", "d", " ", "n", "o",
      "t", " ", "c", "o", "n", "n", "e", "c", "t", " ", "t", "o", " ", "N", "e",
      "x", "u", "s", " ", "A", "I", ".", " ", "P", "l", "e", "a", "s", "e", " ",
      "t", "r", "y", " ", "a", "g", "a", "i", "n", ".", " ", "(">>

ErrorSuffix == <<")">>

\* str(IndexError) of chat_history[-1]['parts'][0] on an empty parts list
IndexErrorDetail ==
    <<"l", "i", "s", "t", " ", "i", "n", "d", "e", "x", " ", "o", "u", "t", " ",
      "o", "f", " ", "r", "a", "n", "g", "e">>

Br == <<"<", "b", "r", ">">>

RoleLabel(role) == IF role = "user" THEN <<"u", "s", "e", "r">>
                   ELSE <<"m", "o", "d", "e", "l">>

WelcomeTurn == [role |-> "model", parts |-> <<WelcomeText>>]

(***************************************************************************)
(* Inputs.                                                                 *)
(***************************************************************************)
Hi == <<"h", "i">>
Hello == <<"h", "e", "l", "l", "o">>

\* texts a user submits in the form field 'message'
Messages == { <<>>, <<"a", "*", "|", "\n">> }

\* texts the completion client returns as response.text
RawReplies == { <<"*", "a", "|", "\n", "b">> }

\* str(e) of the exceptions the completion client raises
Details == { <<"5", "0", "3", "\n", "*">> }

NoOutcome == [kind |-> "none", text |-> <<>>, detail |-> <<>>]

\* model.generate_content(...) returns a response whose .text is read, or
\* raises; reading response.text may raise as well
Outcomes ==
    {[kind |-> "ok", text |-> t, detail |-> <<>>] : t \in RawReplies}
    \cup {[kind |-> k, text |-> <<>>, detail |-> d] :
              k \in {"generate_raises", "text_raises"}, d \in Details}

Roles == {"user", "model"}

\* the 'parts' lists of the turns given to get_gemini_response on its own
PartsChoices == { <<>>, <<Hi>>, <<Hello>>, <<Hello, Hi>> }

Turns == [role : Roles, parts : PartsChoices]

RECURSIVE SeqsUpTo(_, _)
SeqsUpTo(S, n) ==
    IF n = 0 THEN { <<>> }
    ELSE LET shorter == SeqsUpTo(S, n - 1)
         IN  shorter \cup {Append(s, x) : s \in {t \in shorter : Len(t) = n - 1}, x \in S}

Alphabet == {"a", "<", "*", "|", "\n"}

(***************************************************************************)
(* str.replace(old, new) for a one-character old.                          *)
(***************************************************************************)
RECURSIVE Replace(_, _, _)
Replace(s, old, new) ==
    IF s = <<>> THEN <<>>
    ELSE IF Head(s) = old THEN new \o Replace(Tail(s), old, new)
    ELSE <<Head(s)>> \o Replace(Tail(s), old, new)

\* a cleaning step that turns a newline into '<br>' and keeps the newline
Sanitize_keep_newline(text) ==
    Replace(Replace(Replace(text, "*", <<>>), "|", <<>>), "\n", Br \o <<"\n">>)

\* a cleaning step that forgets the vertical bar
Sanitize_keep_bar(text) ==
    Replace(Replace(text, "*", <<>>), "\n", Br)

\* response.text.replace('*', '').replace('|', '').replace('\n', '<br>')
Sanitize(text) ==
    Replace(Replace(Replace(text, "*", <<>>), "|", <<>>), "\n", Br)

(***************************************************************************)
(* ' '.join(parts)                                                         *)
(***************************************************************************)
RECURSIVE Join(_)
Join(parts) ==
    IF parts = <<>> THEN <<>>
    ELSE IF Len(parts) = 1 THEN parts[1]
    ELSE parts[1] \o <<" ">> \o Join(Tail(parts))

\* f"{role}: {text}\n"
Line(label, text) == label \o <<":", " ">> \o text \o <<"\n">>

\* the loop over chat_history[:-1]
RECURSIVE Conversation(_)
Conversation(items) ==
    IF items = <<>> THEN <<>>
    ELSE Line(RoleLabel(items[1].role), Join(items[1].parts))
         \o Conversation(Tail(items))

AllButLast(s) == IF s = <<>> THEN <<>> ELSE SubSeq(s, 1, Len(s) - 1)

Last(s) == s[Len(s)]

(***************************************************************************)
(* get_gemini_response.  A run of it is the record                         *)
(*   raised : whether an exception leaves the code modelled                *)
(*   detail : str(e) of that exception                                     *)
(*   value  : the string returned                                          *)
(*   sent   : the prompt given to model.generate_content                   *)
(*   calls  : the number of calls of model.generate_content                *)
(* o is what the completion client does if it is called.                   *)
(***************************************************************************)
Returned(text, conversation, n) ==
    [raised |-> FALSE, detail |-> <<>>, value |-> text, sent |-> conversation,
     calls |-> n]

Raised(e, conversation, n) ==
    [raised |-> TRUE, detail |-> e, value |-> <<>>, sent |-> conversation,
     calls |-> n]

NoReply == Returned(<<>>, <<>>, 0)

\* an assembly that labels the final line with the last turn's own role
assemble_own_role(chat_history) ==
    IF chat_history # <<>> /\ Last(chat_history).parts = <<>>
    THEN Raised(IndexErrorDetail, <<>>, 0)
    ELSE LET last_user_message ==
                 IF chat_history # <<>> THEN Last(chat_history).parts[1] ELSE <<>>
             label == IF chat_history # <<>> THEN RoleLabel(Last(chat_history).role)
                      ELSE RoleLabel("user")
         IN  Returned(<<>>, Conversation(AllButLast(chat_history))
                            \o Line(label, last_user_message), 0)

\* the try block up to the call of the client: the prompt, or the exception
assemble(chat_history) ==
    IF chat_history # <<>> /\ Last(chat_history).parts = <<>>
    THEN \* chat_history[-1]['parts'][0] raises IndexError, after the loop
         Raised(IndexErrorDetail, <<>>, 0)
    ELSE LET last_user_message ==
                 IF chat_history # <<>> THEN Last(chat_history).parts[1] ELSE <<>>
         IN  Returned(<<>>, Conversation(AllButLast(chat_history))
                            \o Line(RoleLabel("user"), last_user_message), 0)

\* the body of the try block
try_body(chat_history, o) ==
    LET a == assemble(chat_history)
    IN  IF a.raised THEN a
        ELSE IF o.kind = "ok" THEN Returned(Sanitize(o.text), a.sent, 1)
        ELSE Raised(o.detail, a.sent, 1)

\* a guard that tests `if model:` instead of `if not model:`
get_gemini_response_inverted(chat_history, o) ==
    IF model THEN Returned(ConfigError, <<>>, 0)
    ELSE LET b == try_body(chat_history, o)
         IN  IF b.raised
             THEN Returned(ErrorPrefix \o b.detail \o ErrorSuffix, b.sent, b.calls)
             ELSE b

\* a handler that lets the exception through
get_gemini_response_uncaught(chat_history, o) ==
    IF ~model THEN Returned(ConfigError, <<>>, 0)
    ELSE try_body(chat_history, o)

get_gemini_response(chat_history, o) ==
    IF ~model THEN Returned(ConfigError, <<>>, 0)
    ELSE LET b == try_body(chat_history, o)
         IN  IF b.raised
             THEN Returned(ErrorPrefix \o b.detail \o ErrorSuffix, b.sent, b.calls)
             ELSE b

(***************************************************************************)
(* The session and the handlers.  The session travels with the request:    *)
(* a handler reads the transcript its request came with and the session    *)
(* holds what the response sent last has stored.  index waits in           *)
(* model.generate_content with its list in a local variable, and nothing   *)
(* in the application holds other requests back meanwhile: they are        *)
(* handled on the session as it is, and the waiting handler stores its     *)
(* own list when the client has answered.                                  *)
(***************************************************************************)
NoSession == [has |-> FALSE, chat_history |-> <<>>]

Stored(history) == [has |-> TRUE, chat_history |-> history]

\* a seeding that starts from an empty list
seed_session_empty(s) == IF ~s.has THEN Stored(<<>>) ELSE s

\* if 'chat_history' not in session: session['chat_history'] = [welcome]
seed_session(s) == IF ~s.has THEN Stored(<<WelcomeTurn>>) ELSE s

UserTurn(text) == [role |-> "user", parts |-> <<text>>]

ModelTurn(text) == [role |-> "model", parts |-> <<text>>]

NoForm == [has |-> FALSE, message |-> <<>>]

Form(text) == [has |-> TRUE, message |-> text]

\* session.pop's value is kept for the request that follows the clear
KeepPopped == popped' = IF lastReq = "clear" THEN popped ELSE <<>>

\* a test of the message that lets the empty string through
processes_always(user_message_text) == TRUE

\* if user_message_text:
processes(user_message_text) == user_message_text # <<>>

\* a handler that asks for the reply before it appends the user's turn
index_call_first(s, user_message_text) ==
    [message |-> user_message_text, passed |-> s.chat_history,
     history |-> Append(s.chat_history, UserTurn(user_message_text))]

\* current_history = session['chat_history']; current_history.append(user turn);
\* get_gemini_response(current_history) is entered
index_call(s, user_message_text) ==
    LET current_history == Append(s.chat_history, UserTurn(user_message_text))
    IN  [message |-> user_message_text, passed |-> current_history,
         history |-> current_history]

\* a handler that does not append a reply that is an error string
index_store_skip_failed(w, ai_response_text) ==
    IF /\ Len(ai_response_text) >= Len(ErrorPrefix)
       /\ SubSeq(ai_response_text, 1, Len(ErrorPrefix)) = ErrorPrefix
    THEN Stored(w.history)
    ELSE Stored(Append(w.history, ModelTurn(ai_response_text)))

\* current_history.append(model turn); session['chat_history'] = current_history
index_store(w, ai_response_text) ==
    Stored(Append(w.history, ModelTurn(ai_response_text)))

\* the transcript read, the message of this request and those of the handlers
\* that wait are within the bound
InBound(s) ==
    Len(s.chat_history) + 2 * BagCardinality(waiting) + 2 <= 2 * MaxPosts + 1

FunVarsIdle == UNCHANGED <<model, arg, reply, raw, cleaned, phase>>

\* index, POST, handled without a wait: the message is empty, or there is no
\* client and get_gemini_response returns at once
index_POST ==
    \E user_message_text \in Messages :
        LET s1 == seed_session(session)
            w == index_call(s1, user_message_text)
            r == get_gemini_response(w.passed, NoOutcome)
        IN  /\ ~processes(user_message_text) \/ (~model /\ InBound(s1))
            /\ form' = Form(user_message_text)
            /\ outcome' = NoOutcome
            /\ IF processes(user_message_text)
               THEN /\ passed' = w.passed
                    /\ prompt' = r.sent
                    /\ gemini_calls' = 1
                    /\ client_calls' = r.calls
                    /\ session' = index_store(w, r.value)
               ELSE /\ passed' = <<>>
                    /\ prompt' = <<>>
                    /\ gemini_calls' = 0
                    /\ client_calls' = 0
                    /\ session' = s1
            /\ response' = "redirect"
            /\ rendered' = <<>>
            /\ prevReq' = lastReq
            /\ lastReq' = "POST"
            /\ UNCHANGED waiting
            /\ KeepPopped
            /\ FunVarsIdle

\* index, POST with a message and a client, up to the call of
\* model.generate_content, where the handler waits for the client
index_POST_call ==
    \E user_message_text \in Messages :
        LET s1 == seed_session(session)
            w == index_call(s1, user_message_text)
            a == assemble(w.passed)
        IN  /\ processes(user_message_text)
            /\ model
            /\ ~a.raised
            /\ InBound(s1)
            /\ waiting' = waiting (+) SetToBag({w})
            /\ KeepPopped
            /\ form' = Form(user_message_text)
            /\ outcome' = NoOutcome
            /\ passed' = w.passed
            /\ prompt' = a.sent
            /\ gemini_calls' = 1
            /\ client_calls' = 1
            /\ response' = "waiting"
            /\ rendered' = <<>>
            /\ prevReq' = lastReq
            /\ lastReq' = "POST"
            \* session['chat_history'] is assigned when the reply is there
            /\ UNCHANGED session
            /\ FunVarsIdle

\* the client answers one of the waiting handlers, which appends the reply,
\* stores its list in the session, over what the session holds, and redirects
index_POST_return ==
    \E w \in BagToSet(waiting), o \in Outcomes :
        LET r == get_gemini_response(w.passed, o)
        IN  /\ waiting' = waiting (-) SetToBag({w})
            /\ session' = index_store(w, r.value)
            /\ form' = Form(w.message)
            /\ outcome' = o
            /\ passed' = w.passed
            /\ prompt' = r.sent
            /\ gemini_calls' = 1
            /\ client_calls' = r.calls
            /\ response' = "redirect"
            /\ rendered' = <<>>
            /\ UNCHANGED <<lastReq, prevReq, popped>>
            /\ FunVarsIdle

\* index, POST without the form field 'message': request.form['message']
\* raises after the seeding.  Without debug the 400 response stores the
\* seeded session; with debug (app.run(debug=True)) the exception leaves the
\* application and nothing is stored.
index_POST_nofield ==
    \E debug \in BOOLEAN :
        /\ session' = IF debug THEN session ELSE seed_session(session)
        /\ response' = IF debug THEN "error500" ELSE "error400"
        /\ form' = NoForm
        /\ outcome' = NoOutcome
        /\ passed' = <<>>
        /\ prompt' = <<>>
        /\ gemini_calls' = 0
        /\ client_calls' = 0
        /\ rendered' = <<>>
        /\ prevReq' = lastReq
        /\ lastReq' = "POST"
        /\ UNCHANGED waiting
        /\ KeepPopped
        /\ FunVarsIdle

\* index, request.method == 'GET'
index_GET ==
    \E render_ok \in BOOLEAN :
        LET s1 == seed_session(session)
        IN  /\ session' = s1
            /\ rendered' = s1.chat_history
            /\ response' = IF render_ok THEN "page" ELSE "error500"
            /\ form' = NoForm
            /\ outcome' = NoOutcome
            /\ passed' = <<>>
            /\ prompt' = <<>>
            /\ gemini_calls' = 0
            /\ client_calls' = 0
            /\ prevReq' = lastReq
            /\ lastReq' = "GET"
            /\ UNCHANGED waiting
            /\ KeepPopped
            /\ FunVarsIdle

index ==
    \/ index_GET
    \/ index_POST
    \/ index_POST_call
    \/ index_POST_return
    \/ index_POST_nofield

\* a clear that empties the list and keeps the key
session_pop_emptied(s) == Stored(<<>>)

\* session.pop('chat_history', None)
session_pop(s) == NoSession

\* the value session.pop returns: the list removed, None (here <<>>) without one
popped_value(s) == IF s.has THEN s.chat_history ELSE <<>>

clear_chat ==
    /\ session' = session_pop(session)
    /\ popped' = popped_value(session)
    /\ response' = "redirect"
    /\ rendered' = <<>>
    /\ form' = NoForm
    /\ outcome' = NoOutcome
    /\ passed' = <<>>
    /\ prompt' = <<>>
    /\ gemini_calls' = 0
    /\ client_calls' = 0
    /\ prevReq' = lastReq
    /\ lastReq' = "clear"
    /\ UNCHANGED waiting
    /\ FunVarsIdle

WebIdle ==
    /\ session = NoSession
    /\ waiting = EmptyBag
    /\ popped = <<>>
    /\ lastReq = "none"
    /\ prevReq = "none"
    /\ form = NoForm
    /\ passed = <<>>
    /\ prompt = <<>>
    /\ gemini_calls = 0
    /\ client_calls = 0
    /\ rendered = <<>>
    /\ response = "none"

\* the state after startup: the client was created, or it was not (model = None)
Init ==
    /\ model \in BOOLEAN
    /\ WebIdle
    /\ outcome = NoOutcome
    /\ arg = <<>>
    /\ reply = NoReply
    /\ raw = <<>>
    /\ cleaned = <<>>
    /\ phase = "idle"

Next == index \/ clear_chat

Spec == Init /\ [][Next]_vars

(***************************************************************************)
(* get_gemini_response on its own, on every chat_history of the bounds.    *)
(***************************************************************************)
InitRespond ==
    /\ model \in BOOLEAN
    /\ WebIdle
    /\ outcome = NoOutcome
    /\ arg \in SeqsUpTo(Turns, MaxArgTurns)
    /\ reply = NoReply
    /\ raw = <<>>
    /\ cleaned = <<>>
    /\ phase = "input"

Respond ==
    /\ phase = "input"
    /\ \E o \in Outcomes :
         /\ outcome' = o
         /\ reply' = get_gemini_response(arg, o)
    /\ phase' = "done"
    /\ UNCHANGED <<model, arg, raw, cleaned>>
    /\ UNCHANGED webvars

NextRespond == Respond

SpecRespond == InitRespond /\ [][NextRespond]_vars

(***************************************************************************)
(* The cleaning step on its own, on every text of the bounds.              *)
(***************************************************************************)
InitSanitize ==
    /\ model = TRUE
    /\ WebIdle
    /\ outcome = NoOutcome
    /\ arg = <<>>
    /\ reply = NoReply
    /\ raw \in SeqsUpTo(Alphabet, MaxLen)
    /\ cleaned = <<>>
    /\ phase = "input"

Clean ==
    /\ phase = "input"
    /\ cleaned' = Sanitize(raw)
    /\ phase' = "done"
    /\ UNCHANGED <<model, arg, reply, raw, outcome>>
    /\ UNCHANGED webvars

NextSanitize == Clean

SpecSanitize == InitSanitize /\ [][NextSanitize]_vars
(***************************************************************************)
(* Properties.                                                             *)
(***************************************************************************)
IsClean(text) == \A i \in 1..Len(text) : text[i] \notin {"*", "|", "\n"}

HasPrefix(text, prefix) ==
    Len(text) >= Len(prefix) /\ SubSeq(text, 1, Len(prefix)) = prefix

ErrorString(detail) == ErrorPrefix \o detail \o ErrorSuffix

TurnText(turn) == Join(turn.parts)

\* the transcript index works on once lines 133-140 have run
Seeded(s) == IF s.has THEN s.chat_history ELSE <<WelcomeTurn>>

\* the handler whose wait ends with the step
Answered == CHOOSE w \in BagToSet(waiting) : waiting = waiting' (+) SetToBag({w})

\* the handler whose wait begins with the step
Called == CHOOSE w \in BagToSet(waiting') : waiting' = waiting (+) SetToBag({w})

\* no request is being handled: none waits for the completion client
NoneWaiting == waiting = EmptyBag

\* C1: every POST to index with a non-empty message grows the transcript by
\* exactly two turns compared to before the call, the user's turn with the
\* submitted text and then a model turn, and leaves the earlier turns as they
\* were; the model turn holds the cleaned reply when the completion succeeds,
\* the error string when the client fails and the configuration error string
\* when there is no client.  The transcript before the call is the one the
\* request came with: the handler that waits takes it with the user's turn,
\* and what it stores is that list with the model turn.
C1_PostGrowsByTwo ==
    [][ /\ response' = "waiting" =>
              /\ Called.message = form'.message
              /\ Called.history = Append(Seeded(session), UserTurn(form'.message))
        /\ (response' = "redirect" /\ form'.has /\ form'.message # <<>>) =>
              LET before == IF waiting' = waiting THEN Seeded(session)
                            ELSE AllButLast(Answered.history)
                  after == session'.chat_history
                  n == Len(before)
              IN  /\ waiting' # waiting =>
                        Answered.history = Append(before, UserTurn(form'.message))
                  /\ session'.has
                  /\ Len(after) = n + 2
                  /\ SubSeq(after, 1, n) = before
                  /\ after[n + 1] = [role |-> "user", parts |-> <<form'.message>>]
                  /\ after[n + 2].role = "model"
                  /\ after[n + 2].parts =
                       << IF ~model THEN ConfigError
                          ELSE IF outcome'.kind = "ok" THEN Sanitize(outcome'.text)
                          ELSE ErrorString(outcome'.detail) >> ]_vars

C1_Witness ==
    /\ response = "redirect"
    /\ form.has
    /\ form.message # <<>>
    /\ outcome.kind = "generate_raises"
    /\ NoneWaiting
    /\ Len(session.chat_history) = 5
    /\ Last(session.chat_history) = ModelTurn(ErrorString(outcome.detail))

\* the last step handled a clear_chat request
JustCleared == lastReq = "clear" /\ ~form.has /\ response = "redirect"

\* C2: once a clear_chat request has followed any POST and GET requests, the
\* session holds no transcript and the next access to index sees a
\* transcript of exactly one turn, the welcome turn, and no turn from before
\* the clear: a GET renders it alone, a POST passes it with the new user
\* turn and stores nothing else.  The requests before the clear have been
\* handled when it comes: no handler waits.
C2_ClearThenWelcome ==
    [][ /\ (lastReq' = "clear" /\ ~form'.has) => session' = NoSession
        /\ (JustCleared /\ NoneWaiting) =>
              /\ session = NoSession
              /\ lastReq' = "GET" =>
                    rendered' = <<WelcomeTurn>> /\ session' = Stored(<<WelcomeTurn>>)
              /\ (lastReq' = "POST" /\ response' = "waiting") =>
                    passed' = <<WelcomeTurn, UserTurn(form'.message)>>
              /\ (lastReq' = "POST" /\ response' = "redirect") =>
                    /\ session'.has
                    /\ session'.chat_history[1] = WelcomeTurn
                    /\ form'.message = <<>> => session'.chat_history = <<WelcomeTurn>>
                    /\ form'.message # <<>> =>
                          /\ Len(session'.chat_history) = 3
                          /\ session'.chat_history[2] = UserTurn(form'.message)
                          /\ passed' = SubSeq(session'.chat_history, 1, 2) ]_vars

C2_Witness ==
    /\ prevReq = "clear"
    /\ lastReq = "GET"
    /\ NoneWaiting
    /\ Len(popped) = 5
    /\ popped[2].role = "user"
    /\ rendered = <<WelcomeTurn>>
    /\ session = Stored(<<WelcomeTurn>>)

\* C3: whenever index calls get_gemini_response, the transcript it passes is
\* not empty and its last turn has role user.
C3_PassedEndsWithUser ==
    gemini_calls >= 1 => passed # <<>> /\ Last(passed).role = "user"

C3_Witness ==
    /\ gemini_calls = 1
    /\ client_calls = 1
    /\ response = "waiting"
    /\ Len(passed) = 4
    /\ Last(passed) = UserTurn(form.message)

\* the prompt the claim describes: one line "<role>: <text>\n" for each turn
\* but the last, then the line "user: <text of the last turn>\n"
C4_Expected(turns) ==
    LET upto[i \in 0..Len(turns)] ==
            IF i = 0 THEN <<>>
            ELSE upto[i - 1]
                 \o (IF i < Len(turns) THEN RoleLabel(turns[i].role)
                     ELSE <<"u", "s", "e", "r">>)
                 \o <<":", " ">> \o turns[i].parts[1] \o <<"\n">>
    IN  upto[Len(turns)]

C4_SingleFragments(turns) ==
    Len(turns) >= 1 /\ \A i \in 1..Len(turns) : Len(turns[i].parts) = 1

\* C4: for a transcript of N >= 1 turns of one fragment each, the prompt is
\* the lines "<role>: <text>\n" of the first N-1 turns followed by
\* "user: <text of the last turn>\n", whatever the last turn's role.
C4_PromptShape ==
    (phase = "done" /\ model /\ C4_SingleFragments(arg)) =>
        /\ reply.sent = C4_Expected(arg)
        /\ arg = <<UserTurn(Hi)>> =>
              reply.sent = <<"u", "s", "e", "r", ":", " ", "h", "i", "\n">>
        /\ arg = <<ModelTurn(Hello), UserTurn(Hi)>> =>
              reply.sent = <<"m", "o", "d", "e", "l", ":", " ", "h", "e", "l",
                             "l", "o", "\n", "u", "s", "e", "r", ":", " ", "h",
                             "i", "\n">>

C4_Witness ==
    /\ phase = "done"
    /\ model
    /\ arg = <<UserTurn(Hello), ModelTurn(Hi)>>
    /\ reply.sent = <<"u", "s", "e", "r", ":", " ", "h", "e", "l", "l", "o",
                      "\n", "u", "s", "e", "r", ":", " ", "h", "i", "\n">>

\* C5: with no completion client, get_gemini_response returns the same
\* non-empty configuration error string for every transcript, the empty one
\* included, raises nothing and does not call the client.
C5_NoClientConfigError ==
    (phase = "done" /\ ~model) =>
        /\ ~reply.raised
        /\ reply.value = ConfigError
        /\ reply.value # <<>>
        /\ reply.calls = 0
        /\ reply.sent = <<>>

C5_Witness ==
    /\ phase = "done"
    /\ ~model
    /\ arg = <<>>
    /\ reply.value = ConfigError

C6_AssemblyFails(turns) == turns # <<>> /\ Last(turns).parts = <<>>

\* C6: with a completion client, get_gemini_response lets no exception
\* through: when the completion call, the assembly of the prompt or the
\* reading of the response fails, it returns the error string that embeds
\* the failure's detail, and it calls the client at most once.
C6_FailureBecomesString ==
    (phase = "done" /\ model) =>
        /\ ~reply.raised
        /\ reply.calls <= 1
        /\ C6_AssemblyFails(arg) =>
              reply.value = ErrorString(IndexErrorDetail) /\ reply.calls = 0
        /\ (~C6_AssemblyFails(arg) /\ outcome.kind # "ok") =>
              reply.value = ErrorString(outcome.detail) /\ reply.calls = 1

C6_Witness ==
    /\ phase = "done"
    /\ model
    /\ arg # <<>>
    /\ outcome.kind = "text_raises"
    /\ reply.calls = 1
    /\ reply.value = ErrorString(outcome.detail)

\* C7 as stated: the text of every turn handed to the rendering surface has
\* no asterisk, no vertical bar and no newline.
C7_AllRenderedClean ==
    lastReq = "GET" =>
        \A i \in 1..Len(rendered) : IsClean(TurnText(rendered[i]))

\* C7, amended: the text of every model turn handed to the rendering
\* surface, unless it is a completion-failure error string, has no asterisk,
\* no vertical bar and no newline.
C7_ModelRepliesClean ==
    lastReq = "GET" =>
        \A i \in 1..Len(rendered) :
            rendered[i].role = "model" =>
                \/ IsClean(TurnText(rendered[i]))
                \/ HasPrefix(TurnText(rendered[i]), ErrorPrefix)

C7_Witness ==
    /\ lastReq = "GET"
    /\ \E i \in 1..Len(rendered) :
          rendered[i] = ModelTurn(<<"a", "<", "b", "r", ">", "b">>)
    /\ \E i \in 1..Len(rendered) :
          rendered[i].role = "user" /\ ~IsClean(TurnText(rendered[i]))

\* C8: the cleaning step is idempotent: its output has no asterisk, no
\* vertical bar and no newline, cleaning it again changes nothing, and a
\* text with none of the three characters is returned as it is.
C8_SanitizeIdempotent ==
    phase = "done" =>
        /\ IsClean(cleaned)
        /\ Sanitize(cleaned) = cleaned
        /\ IsClean(raw) => cleaned = raw

C8_Witness ==
    /\ phase = "done"
    /\ raw = <<"*", "\n", "|">>
    /\ cleaned = <<"<", "b", "r", ">">>

\* C9: the session transcript, when present, starts with the welcome turn
\* and its roles alternate model, user, model, ...; so its length is odd and
\* its last turn has role model.
C9_RolesAlternate ==
    session.has =>
        LET h == session.chat_history
        IN  /\ h # <<>>
            /\ h[1] = WelcomeTurn
            /\ \A i \in 1..Len(h) :
                  h[i].role = (IF i % 2 = 1 THEN "model" ELSE "user")
            /\ Len(h) % 2 = 1
            /\ Last(h).role = "model"

C9_Witness ==
    /\ session.has
    /\ Len(session.chat_history) = 5
    /\ response = "redirect"
    /\ lastReq = "POST"
    /\ NoneWaiting

\* C10: a POST whose message is the empty string calls neither
\* get_gemini_response nor the completion client and leaves the transcript
\* as it was, except that a session without one gets the welcome turn.
C10_EmptyPostChangesNothing ==
    [][ (lastReq' = "POST" /\ form'.has /\ form'.message = <<>>) =>
          /\ gemini_calls' = 0
          /\ client_calls' = 0
          /\ response' = "redirect"
          /\ waiting' = waiting
          /\ session' = (IF session.has THEN session
                         ELSE Stored(<<WelcomeTurn>>)) ]_vars

C10_Witness ==
    /\ lastReq = "POST"
    /\ form = Form(<<>>)
    /\ gemini_calls = 0
    /\ Len(session.chat_history) = 3
====
